---- MODULE Spec2Model ----
(***************************************************************************)
(* Lip-sync / viseme-blending engine of vox-visage.                        *)
(*                                                                         *)
(* Two engines own a microphone and drive the mouth of a rigged avatar:    *)
(*   "controller"   createAvatarController   (src/src/lib/avatarController.ts) *)
(*   "interactions" attachAvatarInteractions (src/unnamed/part_003)        *)
(* and one procedural scheduler, LipSyncAnimator (src/unnamed/part_002).   *)
(*                                                                         *)
(* Real numbers are fixed-point integers in units of 1/Scale.  A linear    *)
(* interpolation is rounded toward its target, so that the model never     *)
(* lags behind the real-valued filter.  Times are milliseconds.            *)
(***************************************************************************)
EXTENDS Integers, Sequences, FiniteSets, TLC

\* ------------------------------------------------------------------ bounds
MaxStarts == 2      \* getUserMedia requests issued by one engine
MicTicks == 1       \* per-frame ticks of the engine checked on its own
HostStarts == 1     \* getUserMedia requests of a host that has a scheduler
MaxTicks == 3       \* per-frame ticks of that host
MaxTime == 240      \* last clock reading (ms) while the scheduler speaks
RigTicks == 2       \* per-frame ticks when every rig is tried
SchedTime == 700    \* last clock reading (ms) when the scheduler runs whole patterns
SchedCalls == 3     \* setSpeaking calls that change isSpeaking
SchedIdle == 1      \* scheduler ticks while it does not speak
SyncRenders == 3    \* renders of the host with changed flags
MaxRuns == 3        \* runs of the component's init effect
GestureCalls == 3   \* calls of triggerGesture
GestureTime == 3000 \* clock readings (ms) of triggerGesture
AmpTicks == 2       \* per-frame ticks when the gain and the buffer vary

\* ------------------------------------------------------------- fixed point
Scale == 100 * 100

Min(a, b) == IF a < b THEN a ELSE b

Mul(a, b) == (a * b) \div Scale

\* THREE.MathUtils.lerp(x, y, t) = x + (y - x) * t, rounded toward y
Lerp(x, y, t) ==
  LET p == (y - x) * t
  IN  IF p >= 0 THEN x + ((p + Scale - 1) \div Scale)
                ELSE x - (((0 - p) + Scale - 1) \div Scale)

\* Math.sin(progress * Math.PI) for progress in [0,1] (Bhaskara's rational form)
SinPi(p) ==
  LET u == (p * (Scale - p)) \div Scale
  IN  (16 * u * Scale) \div (5 * Scale - 4 * u)

RECURSIVE ISqrtIn(_, _, _)
\* the r in lo .. hi - 1 with r * r <= x < (r + 1) * (r + 1), by bisection
ISqrtIn(x, lo, hi) ==
  IF hi - lo <= 1 THEN lo
  ELSE LET mid == (lo + hi) \div 2
       IN  IF mid * mid <= x THEN ISqrtIn(x, mid, hi) ELSE ISqrtIn(x, lo, mid)

\* Math.sqrt on an integer in 0 .. 128 * 128, rounded down
ISqrt(x) == ISqrtIn(x, 0, 129)

RECURSIVE SumSq_uncentred(_)
\* the sum of squares of the samples without the subtraction of 128
SumSq_uncentred(buf) ==
  IF buf = <<>> THEN 0
  ELSE Head(buf) * Head(buf) + SumSq_uncentred(Tail(buf))

RECURSIVE SumSq(_)
\* sum += (b - 128)^2 over the buffer
SumSq(buf) ==
  IF buf = <<>> THEN 0
  ELSE (Head(buf) - 128) * (Head(buf) - 128) + SumSq(Tail(buf))

\* computeRMS over (b - 128) instead of (b - 128) / 128
computeRMS_unnormalised(buf) == ISqrt(SumSq(buf) \div Len(buf)) * Scale

\* computeRMS: sqrt(mean(((b - 128) / 128)^2)), in units of 1/Scale
computeRMS(buf) == (ISqrt(SumSq(buf) \div Len(buf)) * Scale) \div 128

\* ------------------------------------------------------ program constants
micSmoothing    == 1200     \* 0.12
morphSmooth     == 1200     \* 0.12
ctlGainFactor   == 1225     \* micGain 3.5 * 3.5, in hundredths
intGainFactor   == 1050     \* micGain 3.0 * 3.5, in hundredths
ctlJawSmooth    == 1800     \* 0.18
scaleSmooth     == 1800     \* 0.18
scaleSwing      == 200      \* 0.02
intJawSmooth    == 2000     \* 0.2
jawScale        == 4500     \* 0.45
relaxMorph      == 800      \* 0.08
relaxJaw        == 600      \* 0.06
speakThreshold  == 200      \* 0.02
headIntensity   == 9000
headSwing       == 60
headSmooth      == 1200
speakBoost      == 8000
speakGain       == 3
smoothing       == 1500     \* 0.15
Eps             == 10       \* 0.001

VISEME_COUNT == 15
Visemes == 0 .. (VISEME_COUNT - 1)
VISEME_SIL == 0
VISEME_AA  == 10

\* SPEECH_PATTERNS: <<visemeIndex, durationMs>> steps
SPEECH_PATTERNS ==
  << << <<10, 120>>, <<1, 80>>, <<11, 100>>, <<4, 70>>, <<13, 130>>, <<0, 60>> >>,
     << <<7, 90>>, <<12, 110>>, <<8, 80>>, <<10, 120>>, <<6, 70>>, <<0, 50>> >>,
     << <<10, 140>>, <<13, 120>>, <<14, 100>>, <<11, 130>>, <<12, 110>>, <<0, 70>> >>,
     << <<1, 70>>, <<10, 120>>, <<5, 80>>, <<11, 110>>, <<4, 70>>, <<13, 100>>, <<0, 60>> >>,
     << <<8, 90>>, <<10, 130>>, <<9, 80>>, <<12, 100>>, <<8, 70>>, <<14, 110>>, <<0, 50>> >> >>

PatternIdx == 0 .. (Len(SPEECH_PATTERNS) - 1)

AnimationState == {"idle", "listening", "speaking", "thinking"}

\* -------------------------------------------------------------------- rigs
\* Influence slots: slot i (0..14) is the morph channel VISEME_NAMES[i] of a
\* Ready Player Me head mesh, slot 15 is a generic "mouthOpen" channel.
MOUTH_OPEN == VISEME_COUNT
Slots == 0 .. MOUTH_OPEN

\* Names are sequences of characters.
UpperCase == <<"A","B","C","D","E","F","G","H","I","J","K","L","M",
               "N","O","P","Q","R","S","T","U","V","W","X","Y","Z">>
LowerCase == <<"a","b","c","d","e","f","g","h","i","j","k","l","m",
               "n","o","p","q","r","s","t","u","v","w","x","y","z">>

\* String.prototype.toLowerCase
toLowerCase(nm) ==
  [k \in 1 .. Len(nm) |->
     IF \E u \in 1 .. Len(UpperCase) : UpperCase[u] = nm[k]
       THEN LowerCase[CHOOSE u \in 1 .. Len(UpperCase) : UpperCase[u] = nm[k]]
       ELSE nm[k]]

\* String.prototype.includes
includes(hay, needle) ==
  \E k \in 1 .. (Len(hay) - Len(needle) + 1) :
     SubSeq(hay, k, k + Len(needle) - 1) = needle

VisemePrefix == <<"v", "i", "s", "e", "m", "e", "_">>

VISEME_NAMES ==
  << VisemePrefix \o <<"s", "i", "l">>,
     VisemePrefix \o <<"P", "P">>,
     VisemePrefix \o <<"F", "F">>,
     VisemePrefix \o <<"T", "H">>,
     VisemePrefix \o <<"D", "D">>,
     VisemePrefix \o <<"k", "k">>,
     VisemePrefix \o <<"C", "H">>,
     VisemePrefix \o <<"S", "S">>,
     VisemePrefix \o <<"n", "n">>,
     VisemePrefix \o <<"R", "R">>,
     VisemePrefix \o <<"a", "a">>,
     VisemePrefix \o <<"E">>,
     VisemePrefix \o <<"I">>,
     VisemePrefix \o <<"O">>,
     VisemePrefix \o <<"U">> >>

\* opts.mouthMorphCandidates (controller), opts.mouthMorphNames (interactions)
mouthMorphCandidates ==
  << <<"v", "_", "m", "o", "u", "t", "h", "O", "p", "e", "n">>,
     <<"m", "o", "u", "t", "h", "O", "p", "e", "n">>,
     <<"M", "o", "u", "t", "h", "O", "p", "e", "n">>,
     <<"A", "a">>,
     <<"o", "p", "e", "n">>,
     <<"j", "a", "w", "O", "p", "e", "n">> >>

mouthMorphNames ==
  << <<"m", "o", "u", "t", "h", "O", "p", "e", "n">>,
     <<"J", "a", "w", "O", "p", "e", "n">>,
     <<"v", "_", "m", "o", "u", "t", "h", "O", "p", "e", "n">>,
     <<"m", "o", "u", "t", "h", "_", "A">>,
     <<"M", "o", "u", "t", "h", "O", "p", "e", "n">>,
     <<"A", "a">>,
     <<"O", "P", "E", "N">> >>

\* the substrings of the heuristic: "mouth", "jaw", "aa", "open"
mouthHints == << <<"m", "o", "u", "t", "h">>, <<"j", "a", "w">>, <<"a", "a">>, <<"o", "p", "e", "n">> >>

\* opts.jawBoneNames (controller), opts.jawBoneName (interactions)
jawBoneNames == << <<"J", "a", "w">>, <<"j", "a", "w">>, <<"m", "i", "x", "a", "m", "o", "r", "i", "g", ":", "J", "a", "w">>, <<"H", "e", "a", "d", "_", "J", "a", "w">> >>

jawBoneName == <<"J", "a", "w">>

\* the hints of the head bone that the micro-motion step looks up
headNames == << <<"H", "e", "a", "d">>, <<"h", "e", "a", "d">>, <<"m", "i", "x", "a", "m", "o", "r", "i", "g", ":", "H", "e", "a", "d">> >>

\* The avatars.  dictOf is the morphTargetDictionary of the one mesh, as
\* <<name, slot>> entries in Object.entries order; bonesOf is the bones in
\* traversal order.
\*  "rpm"       the 15 viseme channels of a Ready Player Me head
\*  "generic"   one channel "mouthOpen"
\*  "jaw"       no morph dictionary, bones "Head" and "Jaw"
\*  "none"      neither
\*  "heuristic" one channel "mouthSmile", which only the substring test finds
\*  "morphjaw"  a channel "mouthOpen" and a bone "Jaw"
\*  "headjaw"   no morph dictionary, the jaw bone is named "Head_Jaw" and is
\*              the first bone whose name contains "head"
\*  "arkit"     two channels of an ARKit face, "jawOpen" (slot 14) and
\*              "mouthClose" (slot 15)
RigNames == {"rpm", "generic", "jaw", "none"}

AllRigs == RigNames \cup {"heuristic", "morphjaw", "headjaw", "arkit"}

dictOf(rig) ==
  CASE rig = "rpm" -> [k \in 1 .. VISEME_COUNT |-> <<VISEME_NAMES[k], k - 1>>]
    [] rig \in {"generic", "morphjaw"} -> << <<<<"m", "o", "u", "t", "h", "O", "p", "e", "n">>, MOUTH_OPEN>> >>
    [] rig = "heuristic" -> << <<<<"m", "o", "u", "t", "h", "S", "m", "i", "l", "e">>, MOUTH_OPEN>> >>
    [] rig = "arkit" -> << <<<<"j", "a", "w", "O", "p", "e", "n">>, MOUTH_OPEN - 1>>,
                           <<<<"m", "o", "u", "t", "h", "C", "l", "o", "s", "e">>, MOUTH_OPEN>> >>
    [] OTHER -> <<>>

bonesOf(rig) ==
  CASE rig \in {"jaw", "morphjaw"} -> << <<"H", "e", "a", "d">>, <<"J", "a", "w">> >>
    [] rig = "headjaw" -> << <<"S", "p", "i", "n", "e">>, <<"H", "e", "a", "d", "_", "J", "a", "w">>, <<"S", "k", "u", "l", "l">> >>
    [] rig = "rpm" -> << <<"S", "p", "i", "n", "e">>, <<"N", "e", "c", "k">>, <<"H", "e", "a", "d">> >>
    [] OTHER -> <<>>

\* cand in dict
inDict(cand, dict) == \E k \in 1 .. Len(dict) : dict[k][1] = cand

slotOf(cand, dict) == dict[CHOOSE k \in 1 .. Len(dict) : dict[k][1] = cand][2]

\* low.includes("mouth") || low.includes("jaw") || low.includes("aa") || ...
heuristicMatch(nm) ==
  \E h \in 1 .. Len(mouthHints) : includes(toLowerCase(nm), mouthHints[h])

RECURSIVE exactMatches(_, _)
\* for (const cand of candidates) if (cand in dict) push(dict[cand])
exactMatches(cands, dict) ==
  IF cands = <<>> THEN <<>>
  ELSE (IF inDict(Head(cands), dict) THEN <<slotOf(Head(cands), dict)>> ELSE <<>>)
         \o exactMatches(Tail(cands), dict)

RECURSIVE heuristicMatches(_, _, _)
\* for (const [nm, idx] of Object.entries(dict)) if (heuristic) push(idx);
\* with dedup the push is skipped when the slot is already a candidate
heuristicMatches(entries, acc, dedup) ==
  IF entries = <<>> THEN acc
  ELSE LET nm  == Head(entries)[1]
           idx == Head(entries)[2]
           dup == dedup /\ \E k \in 1 .. Len(acc) : acc[k] = idx
       IN  heuristicMatches(Tail(entries),
                            IF heuristicMatch(nm) /\ ~dup THEN Append(acc, idx)
                                                         ELSE acc,
                            dedup)

\* morphsOf without the substring heuristic: exact candidate names only
morphsOf_exactOnly(e, rig) ==
  exactMatches(IF e = "controller" THEN mouthMorphCandidates ELSE mouthMorphNames,
               dictOf(rig))

\* the morph candidates resolved from a dictionary, in push order
morphsIn(e, dict) ==
  IF e = "controller"
    THEN heuristicMatches(dict, exactMatches(mouthMorphCandidates, dict), FALSE)
    ELSE heuristicMatches(dict, exactMatches(mouthMorphNames, dict), TRUE)

\* the morph candidates the traversal resolves, in push order
morphsOf(e, rig) == morphsIn(e, dictOf(rig))

\* name.toLowerCase().includes(jn.toLowerCase()) for some hint jn
jawMatch(e, nm) ==
  IF e = "controller"
    THEN \E h \in 1 .. Len(jawBoneNames) :
            includes(toLowerCase(nm), toLowerCase(jawBoneNames[h]))
    ELSE includes(toLowerCase(nm), toLowerCase(jawBoneName))

\* index in the traversal order of the bone kept as jawBone: every match
\* overwrites jawBone, so the last match stays; 0: null
jawIndexIn(e, bones) ==
  LET hits == {k \in 1 .. Len(bones) : jawMatch(e, bones[k])}
  IN  IF hits = {} THEN 0 ELSE CHOOSE k \in hits : \A j \in hits : j <= k

jawIndexOf(e, rig) == jawIndexIn(e, bonesOf(rig))

jawBoneOf(e, rig) == jawIndexOf(e, rig) # 0

\* findBoneByName: index of the first bone whose lower-cased name contains a
\* lower-cased hint, 0: null
findBoneByName(bones, names) ==
  LET hits == {k \in 1 .. Len(bones) :
                 \E h \in 1 .. Len(names) :
                    includes(toLowerCase(bones[k]), toLowerCase(names[h]))}
  IN  IF hits = {} THEN 0 ELSE CHOOSE k \in hits : \A j \in hits : k <= j

\* findVisemeMeshes: the influence slots of the channels named in VISEME_NAMES
findVisemeMeshes(rig) ==
  {sl \in Slots : \E k \in 1 .. Len(dictOf(rig)) :
      /\ dictOf(rig)[k][2] = sl
      /\ \E v \in 1 .. VISEME_COUNT : VISEME_NAMES[v] = dictOf(rig)[k][1]}

\* The bone findBoneByName(model, ["Head", ...]) returns is the bone the
\* controller resolved as jawBone.
headIsJaw(e, rig) ==
  /\ e = "controller"
  /\ jawIndexOf(e, rig) # 0
  /\ findBoneByName(bonesOf(rig), headNames) = jawIndexOf(e, rig)

\* ------------------------------------------------------------ mic inputs
\* Time-domain byte buffers handed out by the analyser
Buffers == { <<128, 128>>, <<0, 255>> }

Failures == {"none", "ctx", "analyser", "source"}

\* Clock advance between two readings of performance.now(), and the draws of
\* Math.random() (in units of 1/Scale)
Deltas == {0, 60}
Randoms == {0, Scale - 1}
PatternRandoms == {0, 7000}

\* Math.floor(Math.random() * SPEECH_PATTERNS.length)
pickPattern(r) == (r * Len(SPEECH_PATTERNS)) \div Scale

PatternDraws == {pickPattern(r) : r \in PatternRandoms}

\* Ticks after which a weight that started at 1 has decayed below 0.001:
\* ceil(log(eps / initial) / log(1 - s)) for s = 0.15
LipRelaxTicks == 42 + 1

VARIABLES
  engine,         \* which engine this instance is
  rig,            \* the loaded avatar
  lipSync,        \* viewer.lipSync supplied (a LipSyncAnimator exists)
  morphs,         \* resolved morph candidates, in push order
  jawBone,        \* a jaw bone was resolved
  headOnJaw,      \* the head bone of the micro-motion step is jawBone
  meshes,         \* slots of the viseme channels the scheduler drives
  tier,           \* the tier the names of the rig's channels and bones decide
  micGain,        \* opts.micGain times the fixed multiplier 3.5, in hundredths
  influences,     \* mesh.morphTargetInfluences, per slot
  jawRot,         \* jawBone.rotation.x
  modelScale,     \* model.scale.x
  micEnabled, micStream, audioCtx, analyser, sourceNode,
  smoothed,       \* smoothed / smoothedRMS
  state,          \* AnimationState held by the engine
  loops,          \* scheduled audioLoop callbacks (requestAnimationFrame)
  animationId,    \* animationId is non-null
  pending,        \* startMic calls awaiting getUserMedia
  nextCall,       \* id of the next startMic call that reaches getUserMedia
  streamState,    \* MediaStream of call c: "unopened" | "live" | "stopped"
  ctxState,       \* AudioContext of call c: "none" | "open" | "closed"
  rejected,       \* the startMic promise that settled last rejected
  cancelled,      \* startMic calls that were pending when stopMic ran
  disposed,       \* dispose() was called
  tickError,      \* a per-frame tick raised an error
  isSpeaking, patternIndex, stepIndex, stepStartTime,
  currentPattern, \* the pattern the scheduler steps through
  targetWeights, currentWeights,
  now,            \* last reading of performance.now()
  ticks,          \* per-frame ticks counted against the bound of the specification
  lipIdle,        \* LipSyncAnimator.update calls since speaking stopped
  patternStart,   \* clock reading when the running pattern began
  cadence,        \* interval (ms) between the host's frames, 0 when not fixed
  probe,          \* the input a resolver or computeRMS was last applied to
  result,         \* what it returned
  flags,          \* the host's isListening, isSpeaking and isThinking props
  todo,           \* calls of the running sync effects not yet made
  withAttach,     \* the component attaches interactions to the viewer it loads
  mounted,        \* the Avatar3D component is mounted
  effectRuns,     \* runs of the init effect so far
  closed,         \* `disposed` in the closure of effect run k
  phase,          \* promise chain of run k: "none" | "loading" | "attaching" | "done"
  viewers,        \* viewer of run k: "none" | "live" | "disposed"
  inters,         \* interactions of run k: "none" | "live" | "disposed"
  viewerRef,      \* viewerRef.current: 0 or the run whose viewer it holds
  interactionsRef, \* interactionsRef.current, likewise
  lastGestureTime, \* time (ms) of the last gesture that started
  clipStarts,     \* times action.play() ran, per clip of the avatar
  wrote           \* what each driver wrote since the frame began

rigVars  == <<engine, rig, lipSync, morphs, jawBone, headOnJaw, meshes, tier,
              micGain>>
poseVars == <<influences, jawRot, modelScale>>
micVars  == <<micEnabled, micStream, audioCtx, analyser, sourceNode, smoothed,
              loops, animationId, pending, nextCall, streamState, ctxState,
              rejected, cancelled>>
lipVars  == <<isSpeaking, patternIndex, stepIndex, stepStartTime,
              currentPattern, targetWeights, currentWeights, now>>
probeVars == <<probe, result>>
hostVars == <<flags, todo>>
viewVars == <<withAttach, mounted, effectRuns, closed, phase, viewers, inters,
              viewerRef, interactionsRef>>
gestureVars == <<lastGestureTime, clipStarts>>
compVars == <<hostVars, viewVars, gestureVars>>
schedGhost == <<patternStart, cadence, probeVars, compVars>>
frameGhost == <<schedGhost, wrote>>
ghostVars == <<ticks, lipIdle, frameGhost>>
vars == <<rigVars, poseVars, micVars, lipVars, state, disposed, tickError,
          ghostVars>>

Calls == 1 .. MaxStarts

\* gltf.animations of the avatar, by name, and the names a host may ask for.
Clips == {"wave", "nod"}
GestureNames == Clips \cup {"shrug"}

\* Runs of the Avatar3D init effect (one at mount, one per glbUrl change).
Runs == 1 .. MaxRuns

\* isListening, isSpeaking and isThinking all false
NoFlags == [listening |-> FALSE, speaking |-> FALSE, thinking |-> FALSE]

\* Nothing written yet in this frame: the slots, the jaw rotation and the
\* model scale the engine's mouth path wrote, the slots the scheduler wrote,
\* and whether the micro-motion step wrote the jaw bone.
NoWrites ==
  [ctlSlots |-> {}, ctlJaw |-> FALSE, ctlScale |-> FALSE,
   lipSlots |-> {}, microJaw |-> FALSE]

\* The tier of a rig as the names of its channels and bones decide it:
\* "morph" when a channel is named by a canonical hint or matched by the
\* substring heuristic, else "jaw" when a bone's name contains a jaw hint,
\* else "none".
candidatesOf(e) == IF e = "controller" THEN mouthMorphCandidates ELSE mouthMorphNames

hasMorphChannel(e, r) ==
  \E k \in 1 .. Len(dictOf(r)) :
     \/ \E c \in 1 .. Len(candidatesOf(e)) : candidatesOf(e)[c] = dictOf(r)[k][1]
     \/ heuristicMatch(dictOf(r)[k][1])

hasJawNamedBone(e, r) ==
  \E k \in 1 .. Len(bonesOf(r)) : jawMatch(e, bonesOf(r)[k])

tierOf(e, r) ==
  IF hasMorphChannel(e, r) THEN "morph"
  ELSE IF hasJawNamedBone(e, r) THEN "jaw" ELSE "none"

\* opts.micGain left at its default
DefaultGains ==
  [e \in {"controller", "interactions"} |->
     {IF e = "controller" THEN ctlGainFactor ELSE intGainFactor}]

\* The state after construction, for a rig of rigs and a gain of gains[engine].
InitOpts(rigs, gains) ==
  /\ engine \in {"controller", "interactions"}
  /\ rig \in rigs
  /\ micGain \in gains[engine]
  /\ lipSync \in (IF engine = "controller" THEN BOOLEAN ELSE {FALSE})
  /\ morphs = morphsOf(engine, rig)
  /\ jawBone = jawBoneOf(engine, rig)
  /\ headOnJaw = headIsJaw(engine, rig)
  /\ meshes = findVisemeMeshes(rig)
  /\ tier = tierOf(engine, rig)
  /\ influences = [s \in Slots |-> 0]
  /\ jawRot = 0
  /\ modelScale = Scale
  /\ micEnabled = FALSE
  /\ micStream = 0 /\ audioCtx = 0 /\ analyser = 0 /\ sourceNode = 0
  /\ smoothed = 0
  /\ state = "idle"
  /\ loops = 0 /\ animationId = FALSE
  /\ pending = {} /\ nextCall = 1
  /\ streamState = [c \in Calls |-> "unopened"]
  /\ ctxState = [c \in Calls |-> "none"]
  /\ rejected = FALSE /\ cancelled = {}
  /\ disposed = FALSE
  /\ tickError = FALSE
  /\ isSpeaking = FALSE
  /\ patternIndex = 0 /\ stepIndex = 0 /\ stepStartTime = 0
  /\ currentPattern = SPEECH_PATTERNS[1]
  /\ targetWeights = [i \in Visemes |-> 0]
  /\ currentWeights = [i \in Visemes |-> 0]
  /\ now = 0
  /\ ticks = 0 /\ lipIdle = 0
  /\ patternStart = 0 /\ wrote = NoWrites
  /\ probe = <<>> /\ result = <<>>
  /\ flags = NoFlags /\ todo = <<>>
  /\ withAttach = TRUE /\ mounted = FALSE /\ effectRuns = 0
  /\ closed = [k \in Runs |-> FALSE]
  /\ phase = [k \in Runs |-> "none"]
  /\ viewers = [k \in Runs |-> "none"]
  /\ inters = [k \in Runs |-> "none"]
  /\ viewerRef = 0 /\ interactionsRef = 0
  /\ lastGestureTime = 0 - 999 * 1000
  /\ clipStarts = [c \in Clips |-> 0]

InitOf(rigs) == InitOpts(rigs, DefaultGains) /\ cadence = 0

Init == InitOf(RigNames)

\* ------------------------------------------------------------ microphone
gainFactor == micGain

\* scaledOf without its Math.min(1, ...) clamp
scaledOf_unclamped(sm) == (sm * gainFactor) \div 100

\* Math.min(1, smoothed * micGain * 3.5)
scaledOf(sm) == Min(Scale, (sm * gainFactor) \div 100)

RECURSIVE lerpMorphs(_, _, _, _)
\* for (const m of morphs) influences[m.index] = lerp(influences[m.index], y, t)
lerpMorphs(infl, ms, y, t) ==
  IF ms = <<>> THEN infl
  ELSE lerpMorphs([infl EXCEPT ![Head(ms)] = Lerp(infl[Head(ms)], y, t)],
                  Tail(ms), y, t)

\* for (const m of morphs) influences[m.index] = 0
zeroMorphs(infl) ==
  [s \in Slots |-> IF \E k \in 1 .. Len(morphs) : morphs[k] = s THEN 0 ELSE infl[s]]

\* One pass of audioLoop's body while the microphone is enabled: the pose and
\* the smoothed level it leaves, for analyser buffer buf.
audioLoopBody(buf, sm, infl, rot, sc) ==
  LET sm2    == Lerp(sm, computeRMS(buf), micSmoothing)
      scaled == scaledOf(sm2)
  IN  [ smoothed   |-> sm2,
        influences |-> IF Len(morphs) > 0
                         THEN lerpMorphs(infl, morphs, scaled, morphSmooth)
                         ELSE infl,
        jawRot     |-> IF Len(morphs) = 0 /\ jawBone
                         THEN Lerp(rot, 0 - Mul(jawScale, scaled), intJawSmooth)
                         ELSE rot,
        modelScale |-> IF Len(morphs) = 0 /\ ~jawBone
                         THEN Lerp(sc, Scale + Mul(scaled, scaleSwing), scaleSmooth)
                         ELSE sc ]

\* startMic, up to its await: a call while micEnabled returns at once, any
\* other call asks getUserMedia for a stream and waits for the answer.
startMic ==
  /\ ~disposed
  /\ IF micEnabled
       THEN UNCHANGED <<pending, nextCall>>
       ELSE /\ nextCall <= MaxStarts
            /\ pending' = pending \cup {nextCall}
            /\ nextCall' = nextCall + 1
  /\ UNCHANGED <<rigVars, poseVars, lipVars, state, disposed, tickError,
                 micEnabled, micStream, audioCtx, analyser, sourceNode, smoothed,
                 loops, animationId, streamState, ctxState, rejected, cancelled>>

\* getUserMedia rejects: the catch block logs and returns.
startMicDenied(c) ==
  /\ c \in pending
  /\ pending' = pending \ {c}
  /\ cancelled' = cancelled \ {c}
  /\ rejected' = FALSE
  /\ UNCHANGED <<rigVars, poseVars, lipVars, state, disposed, tickError,
                 micEnabled, micStream, audioCtx, analyser, sourceNode, smoothed,
                 loops, animationId, nextCall, streamState, ctxState>>

\* getUserMedia resolves with the stream of call c; the rest of startMic runs.
\* f names the construction step that throws ("none": all succeed), buf is the
\* buffer the first, synchronous audioLoop() pass of interactions reads.
startMicGranted(c, f, buf) ==
  /\ c \in pending
  /\ pending' = pending \ {c}
  /\ cancelled' = cancelled \ {c}
  /\ streamState' = [streamState EXCEPT ![c] = "live"]
  /\ micStream' = c
  /\ ctxState' = IF f = "ctx" THEN ctxState ELSE [ctxState EXCEPT ![c] = "open"]
  /\ audioCtx' = IF f = "ctx" THEN audioCtx ELSE c
  /\ analyser' = IF f \in {"ctx", "analyser"} THEN analyser ELSE c
  /\ sourceNode' = IF f = "none" THEN c ELSE sourceNode
  /\ rejected' = (f # "none")
  /\ micEnabled' = (micEnabled \/ f = "none")
  /\ IF f = "none" /\ engine = "interactions"
       THEN LET r == audioLoopBody(buf, smoothed, influences, jawRot, modelScale)
            IN  /\ state' = "listening"
                /\ smoothed' = r.smoothed
                /\ influences' = r.influences
                /\ jawRot' = r.jawRot
                /\ modelScale' = r.modelScale
                /\ loops' = loops + 1
                /\ animationId' = TRUE
       ELSE UNCHANGED <<state, smoothed, poseVars, loops, animationId>>
  /\ UNCHANGED <<rigVars, lipVars, disposed, tickError, nextCall>>

\* The body of stopMic once its guard has passed.
stopMicBody ==
  /\ micEnabled' = FALSE
  /\ streamState' = IF micStream # 0
                      THEN [streamState EXCEPT ![micStream] = "stopped"]
                      ELSE streamState
  /\ ctxState' = IF audioCtx # 0
                   THEN [ctxState EXCEPT ![audioCtx] = "closed"]
                   ELSE ctxState
  /\ micStream' = 0 /\ audioCtx' = 0 /\ analyser' = 0 /\ sourceNode' = 0
  /\ IF engine = "controller"
       THEN /\ smoothed' = 0
            /\ UNCHANGED <<state, loops, animationId>>
       ELSE /\ loops' = IF animationId THEN loops - 1 ELSE loops
            /\ animationId' = FALSE
            /\ state' = "idle"
            /\ UNCHANGED smoothed
  /\ influences' = zeroMorphs(influences)
  /\ jawRot' = IF jawBone THEN 0 ELSE jawRot
  /\ UNCHANGED modelScale

\* stopMic without its `if (!micEnabled) return` guard
stopMicCall_unguarded == stopMicBody

\* stopMic as dispose runs it: a no-op unless micEnabled.
stopMicCall ==
  IF ~micEnabled
    THEN UNCHANGED <<poseVars, micEnabled, micStream, audioCtx, analyser,
                     sourceNode, smoothed, loops, animationId, streamState,
                     ctxState, state>>
    ELSE stopMicBody

stopMic ==
  /\ ~disposed
  /\ stopMicCall
  /\ cancelled' = cancelled \cup pending
  /\ UNCHANGED <<rigVars, lipVars, disposed, tickError,
                 pending, nextCall, rejected>>

dispose ==
  /\ ~disposed
  /\ stopMicCall
  /\ disposed' = TRUE
  /\ cancelled' = cancelled \cup pending
  /\ UNCHANGED <<rigVars, lipVars, tickError, pending, nextCall, rejected>>

setState(s) ==
  /\ ~disposed
  /\ state' = s
  /\ UNCHANGED <<rigVars, poseVars, micVars, lipVars, disposed, tickError>>

\* --------------------------------------------------------- per-frame ticks
capturing == micEnabled /\ analyser # 0

\* update(delta) of the controller, up to the mouth output.  With a lipSync
\* supplied the capturing branch calls lipSync.setAmplitude, which
\* LipSyncAnimator does not define: the call throws a TypeError.

\* Math.sin(time * 2.5), in units of 1/Scale
Waves == {0 - Scale, Scale}

\* sin * 0.006 * headIntensity * (1 + speakIntensity * 0.8), where
\* speakIntensity = state === "speaking" ? Math.min(1, rms * 3.0) : 0
headTarget(st, rms, w) ==
  LET speakIntensity == IF st = "speaking" THEN Min(Scale, rms * speakGain) ELSE 0
  IN  (w * Mul(Mul(headSwing, headIntensity), Scale + Mul(speakIntensity, speakBoost)))
        \div Scale

\* head.rotation.x = lerp(head.rotation.x, target, 0.12), as far as it lands
\* on the jaw bone; rot is the jaw rotation the mouth step left
microMotion(rot, st, rms, w) ==
  IF headOnJaw THEN Lerp(rot, headTarget(st, rms, w), headSmooth) ELSE rot

update(buf) ==
  /\ engine = "controller"
  /\ ~disposed
  /\ \E w \in (IF headOnJaw THEN Waves ELSE {0}) :
       IF capturing
         THEN LET sm2 == Lerp(smoothed, computeRMS(buf), micSmoothing)
                  rms == scaledOf(sm2)
              IN  /\ smoothed' = sm2
                  /\ IF lipSync
                       THEN /\ tickError' = TRUE
                            /\ UNCHANGED <<influences, jawRot, state>>
                       ELSE /\ influences' =
                                 IF Len(morphs) > 0
                                   THEN lerpMorphs(influences, morphs, rms, morphSmooth)
                                   ELSE influences
                            /\ state' = IF rms > speakThreshold THEN "speaking" ELSE state
                            /\ jawRot' = microMotion(
                                 IF Len(morphs) = 0 /\ jawBone
                                   THEN Lerp(jawRot, 0 - Mul(jawScale, rms), ctlJawSmooth)
                                   ELSE jawRot,
                                 state', rms, w)
                            /\ UNCHANGED tickError
         ELSE /\ influences' =
                   IF Len(morphs) > 0
                     THEN lerpMorphs(influences, morphs, 0, relaxMorph)
                     ELSE influences
              /\ jawRot' = microMotion(
                   IF Len(morphs) = 0 /\ jawBone
                     THEN Lerp(jawRot, 0, relaxJaw)
                     ELSE jawRot,
                   state, 0, w)
              /\ UNCHANGED <<smoothed, state, tickError>>
  /\ UNCHANGED <<rigVars, lipVars, modelScale, disposed,
                 micEnabled, micStream, audioCtx, analyser, sourceNode,
                 loops, animationId, pending, nextCall, streamState, ctxState,
                 rejected, cancelled>>

\* One requestAnimationFrame callback of audioLoop (interactions).
audioLoop(buf) ==
  /\ engine = "interactions"
  /\ loops > 0
  /\ IF ~micEnabled \/ analyser = 0
       THEN /\ loops' = loops - 1
            /\ UNCHANGED <<poseVars, smoothed, animationId>>
       ELSE LET r == audioLoopBody(buf, smoothed, influences, jawRot, modelScale)
            IN  /\ smoothed' = r.smoothed
                /\ influences' = r.influences
                /\ jawRot' = r.jawRot
                /\ modelScale' = r.modelScale
                /\ animationId' = TRUE
                /\ UNCHANGED loops
  /\ UNCHANGED <<rigVars, lipVars, state, disposed, tickError,
                 micEnabled, micStream, audioCtx, analyser, sourceNode,
                 pending, nextCall, streamState, ctxState, rejected, cancelled>>

\* ------------------------------------------------------- LipSyncAnimator
\* if (elapsed >= durationMs) taken as soon as any time has elapsed
stepDue_early(elapsed, durationMs) == elapsed > 0

\* if (elapsed >= durationMs)
stepDue(elapsed, durationMs) == elapsed >= durationMs

\* if (this.stepIndex >= this.currentPattern.length) without its equality case
exhausted_late(step, pattern) == step + 1 > Len(pattern)

\* this.stepIndex++; if (this.stepIndex >= this.currentPattern.length)
exhausted(step, pattern) == step + 1 >= Len(pattern)

\* setSpeaking without `this.stepIndex = 0` on entering Speaking
setSpeaking_noReset(speaking, p, d) ==
  /\ lipSync
  /\ ~disposed
  /\ IF speaking /\ ~isSpeaking
       THEN /\ now' = now + d
            /\ patternIndex' = p
            /\ currentPattern' = SPEECH_PATTERNS[p + 1]
            /\ stepStartTime' = now'
            /\ UNCHANGED stepIndex
       ELSE UNCHANGED <<now, patternIndex, currentPattern, stepIndex,
                        stepStartTime>>
  /\ isSpeaking' = speaking
  /\ targetWeights' = IF speaking THEN targetWeights ELSE [i \in Visemes |-> 0]
  /\ UNCHANGED <<rigVars, poseVars, micVars, currentWeights, state, disposed,
                 tickError>>

\* setSpeaking(speaking); p is the pattern Math.random() picks, d the clock
\* advance since the last reading.
setSpeaking(speaking, p, d) ==
  /\ lipSync
  /\ ~disposed
  /\ IF speaking /\ ~isSpeaking
       THEN /\ now' = now + d
            /\ patternIndex' = p
            /\ currentPattern' = SPEECH_PATTERNS[p + 1]
            /\ stepIndex' = 0
            /\ stepStartTime' = now'
       ELSE UNCHANGED <<now, patternIndex, currentPattern, stepIndex,
                        stepStartTime>>
  /\ isSpeaking' = speaking
  /\ targetWeights' = IF speaking THEN targetWeights ELSE [i \in Visemes |-> 0]
  /\ UNCHANGED <<rigVars, poseVars, micVars, currentWeights, state, disposed,
                 tickError>>

\* targetOf without the jaw openness added under consonants
targetOf_noJaw(visemeIdx, intensity) ==
  [i \in Visemes |-> IF i = visemeIdx THEN intensity ELSE 0]

\* targetWeights after the speaking branch of update
targetOf(visemeIdx, intensity) ==
  [i \in Visemes |->
     IF i = visemeIdx THEN intensity
     ELSE IF i = VISEME_AA /\ visemeIdx # VISEME_SIL /\ visemeIdx # VISEME_AA
       THEN Mul(intensity, 2000)
       ELSE 0]

\* blend that jumps to the target at once
blend_instant(cur, tgt) == tgt

\* blend with a smoothing factor of 0.015 instead of 0.15
blend_slow(cur, tgt) ==
  [i \in Visemes |->
     LET c == Lerp(cur[i], tgt[i], smoothing \div 10)
     IN  IF c < Eps THEN 0 ELSE c]

\* currentWeights[i] += (target - current) * smoothing; snap below 0.001
blend(cur, tgt) ==
  [i \in Visemes |->
     LET c == Lerp(cur[i], tgt[i], smoothing)
     IN  IF c < Eps THEN 0 ELSE c]

\* LipSyncAnimator.update(); d is the clock advance, r the Math.random() draw
\* of the intensity, p the one of the next pattern.
LipSyncAnimator_update(d, r, p) ==
  /\ lipSync
  /\ ~disposed
  /\ now' = now + d
  /\ IF isSpeaking
       THEN LET visemeIdx  == currentPattern[stepIndex + 1][1]
                durationMs == currentPattern[stepIndex + 1][2]
                elapsed    == now' - stepStartTime
                progress   == Min((elapsed * Scale) \div durationMs, Scale)
                intensity  == Mul(SinPi(progress), 6000 + Mul(r, 3500))
            IN  /\ targetWeights' = targetOf(visemeIdx, intensity)
                /\ IF stepDue(elapsed, durationMs)
                     THEN /\ IF exhausted(stepIndex, currentPattern)
                               THEN /\ patternIndex' = p
                                    /\ currentPattern' = SPEECH_PATTERNS[p + 1]
                                    /\ stepIndex' = 0
                               ELSE /\ stepIndex' = stepIndex + 1
                                    /\ UNCHANGED <<patternIndex, currentPattern>>
                          /\ stepStartTime' = now'
                     ELSE UNCHANGED <<patternIndex, currentPattern, stepIndex,
                                      stepStartTime>>
       ELSE UNCHANGED <<targetWeights, patternIndex, currentPattern, stepIndex,
                        stepStartTime>>
  /\ currentWeights' = blend(currentWeights, targetWeights')
  /\ influences' = [s \in Slots |->
                      IF s \in meshes THEN currentWeights'[s]
                                                  ELSE influences[s]]
  /\ UNCHANGED <<rigVars, jawRot, modelScale, micVars, isSpeaking, state,
                 disposed, tickError>>

\* ------------------------------------------------------------------ system
\* The host takes at most MaxTicks per-frame ticks (MicTicks when the engine
\* is checked on its own) and reads the clock up to MaxTime.
Tick == ticks < MaxTicks /\ ticks' = ticks + 1 /\ UNCHANGED <<lipIdle, frameGhost>>

MicTick == ticks < MicTicks /\ ticks' = ticks + 1 /\ UNCHANGED <<lipIdle, frameGhost>>

Clock(d) == now + d <= MaxTime

\* The microphone engine in full: every interleaving of the caller's
\* operations, the permission answers, the construction failures and the
\* per-frame ticks.  The scheduler, when supplied, is left alone.
Next ==
  \/ startMic /\ UNCHANGED ghostVars
  \/ (\E c \in Calls : startMicDenied(c)) /\ UNCHANGED ghostVars
  \/ (\E c \in Calls, f \in Failures, buf \in Buffers : startMicGranted(c, f, buf))
       /\ UNCHANGED ghostVars
  \/ stopMic /\ UNCHANGED ghostVars
  \/ dispose /\ UNCHANGED ghostVars
  \/ (\E s \in AnimationState : setState(s)) /\ UNCHANGED ghostVars
  \/ (\E buf \in Buffers : update(buf)) /\ MicTick
  \/ (\E buf \in Buffers : audioLoop(buf)) /\ MicTick

Spec == Init /\ [][Next]_vars

\* The engine together with its scheduler.  A host that supplies a scheduler
\* drives the mouth with it and leaves the microphone off; a host without
\* one asks for the microphone HostStarts times, and every request is granted
\* and built.
NextEngine ==
  \/ ~lipSync /\ (micEnabled \/ nextCall <= HostStarts) /\ startMic /\ UNCHANGED ghostVars
  \/ (\E c \in Calls, buf \in Buffers : startMicGranted(c, "none", buf))
       /\ UNCHANGED ghostVars
  \/ stopMic /\ UNCHANGED ghostVars
  \/ (\E s \in AnimationState : setState(s)) /\ UNCHANGED ghostVars
  \/ (\E buf \in Buffers : update(buf)) /\ Tick
  \/ (\E buf \in Buffers : audioLoop(buf)) /\ Tick
  \/ (\E b \in BOOLEAN, p \in PatternDraws, d \in Deltas :
        Clock(d) /\ setSpeaking(b, p, d)) /\ UNCHANGED ghostVars
  \/ (\E d \in Deltas, r \in Randoms, p \in PatternDraws :
        Clock(d) /\ LipSyncAnimator_update(d, r, p)) /\ Tick

SpecEngine == Init /\ [][NextEngine]_vars

\* The same host, now free to keep ticking once no driver is active: ticks
\* are budgeted only while the microphone captures or the scheduler speaks
\* (entering Speaking counts as one), lipIdle counts the scheduler's ticks
\* since it stopped speaking, and the clock is read only while it speaks.
DrivenTick == ticks < MaxTicks /\ ticks' = ticks + 1

NextRelax ==
  \/ ~lipSync /\ (micEnabled \/ nextCall <= HostStarts) /\ startMic /\ UNCHANGED ghostVars
  \/ (\E c \in Calls, buf \in Buffers : startMicGranted(c, "none", buf))
       /\ UNCHANGED ghostVars
  \/ stopMic /\ UNCHANGED ghostVars
  \/ (\E buf \in Buffers : update(buf))
       /\ (IF capturing \/ lipSync THEN DrivenTick ELSE UNCHANGED ticks)
       /\ UNCHANGED <<lipIdle, frameGhost>>
  \/ (\E buf \in Buffers : audioLoop(buf))
       /\ (IF capturing THEN DrivenTick ELSE UNCHANGED ticks)
       /\ UNCHANGED <<lipIdle, frameGhost>>
  \/ (\E b \in BOOLEAN, p \in PatternDraws, d \in Deltas :
        /\ Clock(d)
        /\ setSpeaking(b, p, d)
        /\ lipIdle' = IF b # isSpeaking THEN 0 ELSE lipIdle
        /\ IF b /\ ~isSpeaking THEN DrivenTick ELSE UNCHANGED ticks)
       /\ UNCHANGED frameGhost
  \/ (\E d \in (IF isSpeaking THEN Deltas ELSE {0}),
           r \in Randoms, p \in PatternDraws :
        Clock(d) /\ LipSyncAnimator_update(d, r, p))
       /\ (IF isSpeaking
             THEN DrivenTick /\ lipIdle' = 0
             ELSE lipIdle' = Min(lipIdle + 1, LipRelaxTicks) /\ UNCHANGED ticks)
       /\ UNCHANGED frameGhost

SpecRelax == Init /\ [][NextRelax]_vars

\* ------------------------------------------------------------------ claims
liveStreams == {c \in Calls : streamState[c] = "live"}

handlesHeld == {micStream, audioCtx, analyser, sourceNode} \ {0}

\* What the engine owns and writes: every variable but the bookkeeping of
\* the checks (cancelled, ticks, lipIdle).
engineState ==
  <<rigVars, poseVars, lipVars, state, disposed, tickError,
    micEnabled, micStream, audioCtx, analyser, sourceNode, smoothed, loops,
    animationId, pending, nextCall, streamState, ctxState, rejected>>

\* C1: over any interleaving of startMic calls and permission answers at most
\* one microphone stream is open, and every open stream is the one micStream
\* refers to, so that stopMic can release it.
C1_OneDevice ==
  /\ Cardinality(liveStreams) <= 1
  /\ \A c \in liveStreams : micStream = c

\* C2: when the grant of a startMic that stopMic was called on while it was
\* pending arrives, the engine is not capturing, holds no stream or context,
\* and is not switched to listening.
C2_CancelledStartStaysOff ==
  [][\A c \in Calls, f \in Failures, buf \in Buffers :
       (c \in cancelled /\ startMicGranted(c, f, buf))
         => /\ ~micEnabled'
            /\ micStream' = 0 /\ audioCtx' = 0
            /\ (state' = "listening" => state = "listening")]_vars

\* C3: once dispose has returned and every pending startMic has settled, the
\* engine holds no stream, source, analyser or context.
C3_DisposeReleases ==
  (disposed /\ pending = {}) => (handlesHeld = {} /\ liveStreams = {})

\* C4: stopMic leaves the engine not capturing, and a stopMic called when the
\* engine is not capturing changes nothing of the engine or the rig; hence a
\* second stopMic changes nothing after a first.
C4_StopMicIdempotent ==
  [][stopMic => /\ ~micEnabled'
                /\ (~micEnabled => UNCHANGED engineState)]_vars

\* C4 witness: stopMic was called on an engine that never captured (its only
\* startMic is still pending) and whose state is not idle.
C4_Witness ==
  /\ cancelled = {1} /\ pending = {1} /\ nextCall = 2
  /\ ~micEnabled /\ state = "speaking"

\* C5: every target and current viseme weight and every morph-target
\* influence lies in [0,1].
C5_WeightsInUnitRange ==
  /\ \A i \in Visemes : /\ targetWeights[i] \in 0 .. Scale
                        /\ currentWeights[i] \in 0 .. Scale
  /\ \A sl \in Slots : influences[sl] \in 0 .. Scale

\* C5 witness: after MaxTicks ticks either the scheduler holds a target above
\* 0.9 and a current weight above 0.1, or the microphone has driven a morph
\* influence above 0.2.
C5_Witness ==
  /\ ticks = MaxTicks
  /\ \/ \E i \in Visemes : targetWeights[i] > 9000 /\ currentWeights[i] > 1000
     \/ ~lipSync /\ \E sl \in Slots : influences[sl] > 2000

C7_StateOnlyBySetState ==
  [][state' # state => \E st \in AnimationState : setState(st)]_vars

\* C8: no per-frame tick raises an error.
C8_TickNeverFails == ~tickError

\* C9: when getUserMedia rejects, startMic returns without an error and the
\* engine is left not capturing, with no audio handle held.
C9_DeniedLeavesNoCapture ==
  [][\A c \in Calls :
       startMicDenied(c)
         => /\ ~rejected'
            /\ ~micEnabled'
            /\ micStream' = 0 /\ audioCtx' = 0 /\ analyser' = 0 /\ sourceNode' = 0]_vars

\* C10: when the audio context, analyser or source cannot be built after the
\* stream was granted, the engine is not capturing and the granted stream is
\* neither left open nor held.
C10_FailedBuildReleases ==
  [][\A c \in Calls, f \in Failures \ {"none"}, buf \in Buffers :
       startMicGranted(c, f, buf)
         => /\ ~micEnabled'
            /\ micStream' = 0
            /\ streamState'[c] # "live"]_vars

\* ------------------------------------------------------- writes of a frame
morphSlots == {morphs[k] : k \in 1 .. Len(morphs)}

\* What update writes: nothing when the lipSync call throws; else the morph
\* loop, or else the jaw bone; then the micro-motion step writes the head bone.
updateWrites ==
  LET runs == ~(capturing /\ lipSync)
  IN  [ctlSlots |-> IF runs /\ Len(morphs) > 0 THEN morphSlots ELSE {},
       ctlJaw   |-> runs /\ Len(morphs) = 0 /\ jawBone,
       ctlScale |-> FALSE,
       lipSlots |-> {},
       microJaw |-> runs /\ headOnJaw]

\* What one pass of audioLoop writes when it runs (cap: micEnabled && analyser)
audioLoopWrites(cap) ==
  [ctlSlots |-> IF cap /\ Len(morphs) > 0 THEN morphSlots ELSE {},
   ctlJaw   |-> cap /\ Len(morphs) = 0 /\ jawBone,
   ctlScale |-> cap /\ Len(morphs) = 0 /\ ~jawBone,
   lipSlots |-> {},
   microJaw |-> FALSE]

\* What stopMic writes once its guard has passed
stopMicWrites ==
  [ctlSlots |-> IF micEnabled THEN morphSlots ELSE {},
   ctlJaw   |-> micEnabled /\ jawBone,
   ctlScale |-> FALSE,
   lipSlots |-> {},
   microJaw |-> FALSE]

\* What LipSyncAnimator.update writes
lipWrites == [NoWrites EXCEPT !.lipSlots = meshes]

Wrote(w) ==
  wrote' = [ctlSlots |-> wrote.ctlSlots \cup w.ctlSlots,
            ctlJaw   |-> wrote.ctlJaw \/ w.ctlJaw,
            ctlScale |-> wrote.ctlScale \/ w.ctlScale,
            lipSlots |-> wrote.lipSlots \cup w.lipSlots,
            microJaw |-> wrote.microJaw \/ w.microJaw]

\* The host's animate loop starts a frame.
beginFrame ==
  /\ wrote # NoWrites
  /\ wrote' = NoWrites
  /\ UNCHANGED <<rigVars, poseVars, micVars, lipVars, state, disposed, tickError,
                 ticks, lipIdle, schedGhost>>

RigTick == ticks < RigTicks /\ ticks' = ticks + 1

\* Every rig, with what each operation writes recorded per frame.  A frame is
\* one pass of the host's animate loop, which calls controller.update and
\* LipSyncAnimator.update; requests for the microphone are granted and built,
\* and the scheduler's random draws are fixed.
InitRig == InitOf(AllRigs)

NextRig ==
  \/ beginFrame
  \/ (micEnabled \/ nextCall <= HostStarts) /\ startMic /\ UNCHANGED ghostVars
  \/ (\E c \in Calls, buf \in Buffers :
        /\ startMicGranted(c, "none", buf)
        /\ Wrote(IF engine = "interactions" THEN audioLoopWrites(TRUE) ELSE NoWrites))
       /\ UNCHANGED <<ticks, lipIdle, schedGhost>>
  \/ stopMic /\ Wrote(stopMicWrites) /\ UNCHANGED <<ticks, lipIdle, schedGhost>>
  \/ dispose /\ Wrote(stopMicWrites) /\ UNCHANGED <<ticks, lipIdle, schedGhost>>
  \/ (\E st \in AnimationState : setState(st)) /\ UNCHANGED ghostVars
  \/ (\E buf \in Buffers : update(buf))
       /\ RigTick /\ Wrote(updateWrites) /\ UNCHANGED <<lipIdle, schedGhost>>
  \/ (\E buf \in Buffers : audioLoop(buf))
       /\ RigTick /\ Wrote(audioLoopWrites(capturing))
       /\ UNCHANGED <<lipIdle, schedGhost>>
  \/ (\E b \in BOOLEAN : setSpeaking(b, pickPattern(0), 0)) /\ UNCHANGED ghostVars
  \/ (\E d \in Deltas \ {0} :
        Clock(d) /\ LipSyncAnimator_update(d, Scale - 1, pickPattern(0)))
       /\ RigTick /\ Wrote(lipWrites) /\ UNCHANGED <<lipIdle, schedGhost>>

SpecRig == InitRig /\ [][NextRig]_vars

Abs(x) == IF x < 0 THEN 0 - x ELSE x

\* C11: in one per-frame tick no morph-target influence the microphone path
\* drives moves by more than one smoothing step, (1 - 0) x morphSmooth, and no
\* current viseme weight by more than (1 - 0) x smoothing.
C11_SlewBound ==
  [][/\ ((\E buf \in Buffers : update(buf)) \/ (\E buf \in Buffers : audioLoop(buf)))
          => \A sl \in Slots :
                Abs(influences'[sl] - influences[sl]) <= Mul(Scale, morphSmooth)
     /\ (\E d \in Deltas, r \in Randoms, p \in PatternDraws :
            LipSyncAnimator_update(d, r, p))
          => \A i \in Visemes :
                Abs(currentWeights'[i] - currentWeights[i]) <= Mul(Scale, smoothing)]_vars

\* a capturing tick of the mouth path that runs to its end
mouthTick ==
  /\ capturing /\ ~lipSync
  /\ \/ \E buf \in Buffers : update(buf)
     \/ \E buf \in Buffers : audioLoop(buf)

C13_NoneTierIsNoOp ==
  [][tier = "none" =>
       /\ influences' = influences
       /\ jawRot' = jawRot
       /\ modelScale' = modelScale
       /\ ~tickError']_vars

\* C14: within one frame, no morph-target slot is written both by the
\* controller's update (microphone or relaxation path) and by
\* LipSyncAnimator.update.
C14_OneDriverPerSlot == wrote.ctlSlots \cap wrote.lipSlots = {}

\* ------------------------------------------------------ amplitude extractor
\* Gains from 0.01 to 1000 (in hundredths), and analyser buffers from silence
\* to full scale.
Gains == {1, 100, 1225, 100 * 1000}

AmpBuffers == { <<128, 128>>, <<0, 255>>, <<0, 0>>, <<120, 140>> }

AmpTick == ticks < AmpTicks /\ ticks' = ticks + 1 /\ UNCHANGED <<lipIdle, frameGhost>>

InitAmp ==
  /\ InitOpts({"generic"}, [e \in {"controller", "interactions"} |-> Gains])
  /\ cadence = 0

\* The microphone path for every gain and buffer: one request, granted and
\* built, then capturing ticks.
NextAmp ==
  \/ (micEnabled \/ nextCall <= HostStarts) /\ startMic /\ UNCHANGED ghostVars
  \/ (\E c \in Calls, buf \in AmpBuffers : startMicGranted(c, "none", buf))
       /\ UNCHANGED ghostVars
  \/ stopMic /\ UNCHANGED ghostVars
  \/ (\E buf \in AmpBuffers : update(buf)) /\ AmpTick
  \/ (\E buf \in AmpBuffers : audioLoop(buf)) /\ AmpTick

SpecAmp == InitAmp /\ [][NextAmp]_vars

\* the amplitude a capturing tick produces from the smoothed level it leaves
amplitude == scaledOf(smoothed)

\* a pass of the extractor over buffer buf
extracts(buf) ==
  \/ capturing /\ update(buf)
  \/ capturing /\ audioLoop(buf)
  \/ engine = "interactions" /\ \E c \in Calls : startMicGranted(c, "none", buf)

\* C15: for every buffer and every positive gain, a pass of the extractor
\* leaves smoothed = smoothed*(1 - alpha) + rms*alpha (to the rounding of one
\* unit, and between the old level and the rms), and the amplitude it
\* produces lies in [0,1].
C15_AmplitudeInUnitRange ==
  [][\A buf \in AmpBuffers :
       extracts(buf) =>
         /\ amplitude' \in 0 .. Scale
         /\ smoothed' \in 0 .. Scale
         /\ Abs(smoothed' * Scale
                 - (smoothed * (Scale - micSmoothing) + computeRMS(buf) * micSmoothing))
              <= Scale]_vars

\* C15 witness: a gain of 1000 on a loud buffer, where the product of the
\* smoothed level and the gain is far above 1 and the amplitude is 1.
C15_Witness ==
  /\ micGain = 100 * 1000 /\ capturing /\ ticks > 0
  /\ (smoothed * micGain) \div 100 > Scale
  /\ amplitude = Scale

\* C16: a stopMic that ends a capture leaves the smoothed level at 0.
C16_StopResetsLevel ==
  [][(micEnabled /\ stopMic) => smoothed' = 0]_vars

\* ---------------------------------------------------------------- scheduler
\* Frame intervals of the host: 10 ms divides every step duration of the
\* library, 40 ms does not.
Cadences == {10, 40}

\* Math.random() draws at a switch, reaching every pattern of the library
SchedRandoms == {0, 2000, 4000, 6000, Scale - 1}

RECURSIVE sumDurations(_)
\* the sum of the step durations of a pattern
sumDurations(pattern) ==
  IF pattern = <<>> THEN 0 ELSE Head(pattern)[2] + sumDurations(Tail(pattern))

\* the step that ends the running pattern: update advances past its last step
switches ==
  /\ isSpeaking
  /\ exhausted(stepIndex, currentPattern)
  /\ stepStartTime' # stepStartTime

InitSched ==
  /\ InitOpts({"rpm"}, DefaultGains)
  /\ engine = "controller" /\ lipSync
  /\ cadence \in Cadences

\* The scheduler alone, ticked once per frame at a fixed cadence; setSpeaking
\* is called at a frame, the clock is read only while the scheduler speaks,
\* and the intensity draw is fixed.  ticks counts the setSpeaking calls that
\* change isSpeaking, lipIdle the ticks since the scheduler stopped speaking.
NextSched ==
  \/ (\E b \in BOOLEAN, r \in PatternRandoms :
        /\ b # isSpeaking => ticks < SchedCalls
        /\ setSpeaking(b, pickPattern(r), 0)
        /\ ticks' = IF b # isSpeaking THEN ticks + 1 ELSE ticks
        /\ lipIdle' = IF b # isSpeaking THEN 0 ELSE lipIdle)
       /\ patternStart' = (IF isSpeaking' /\ ~isSpeaking THEN now' ELSE patternStart)
       /\ UNCHANGED <<cadence, wrote, probeVars, compVars>>
  \/ (\E r \in SchedRandoms :
        IF isSpeaking
          THEN /\ now + cadence <= SchedTime
               /\ LipSyncAnimator_update(cadence, Scale - 1, pickPattern(r))
               /\ UNCHANGED lipIdle
          ELSE /\ lipIdle < SchedIdle
               /\ LipSyncAnimator_update(0, Scale - 1, pickPattern(r))
               /\ lipIdle' = lipIdle + 1)
       /\ patternStart' = (IF switches THEN now' ELSE patternStart)
       /\ UNCHANGED <<ticks, cadence, wrote, probeVars, compVars>>

SpecSched == InitSched /\ [][NextSched]_vars

\* C18: after any sequence of setSpeaking and update calls the pattern index
\* is an index of the library, the active pattern is the library entry at
\* that index, and the step index is an index of the active pattern.
C18_SchedulerStateValid ==
  /\ patternIndex \in PatternIdx
  /\ currentPattern = SPEECH_PATTERNS[patternIndex + 1]
  /\ stepIndex \in 0 .. (Len(currentPattern) - 1)

\* C18 witness: after its one setSpeaking(true) the scheduler has run a whole
\* pattern, switched to the last pattern of the library and advanced in it.
C18_Witness ==
  /\ isSpeaking /\ ticks = 1 /\ patternStart > 0
  /\ patternIndex = Len(SPEECH_PATTERNS) - 1
  /\ stepIndex > 0

\* C17 as stated: when the scheduler switches to the next pattern, the time
\* since the pattern's first step began equals the sum of the pattern's step
\* durations, at every tick cadence.
C17_DurationIsSum ==
  [][switches => now' - patternStart = sumDurations(currentPattern)]_vars

\* C17 amended: when the scheduler switches to the next pattern, the time
\* since the pattern's first step began is at least the sum of the pattern's
\* step durations and exceeds it by less than one tick interval per step; it
\* equals the sum when every step duration is a multiple of the tick interval
\* (the pattern having begun at a tick).
C17_DurationAtLeastSum ==
  [][switches =>
       LET total == now' - patternStart
           sum   == sumDurations(currentPattern)
       IN  /\ total >= sum
           /\ total < sum + Len(currentPattern) * cadence
           /\ (\A k \in 1 .. Len(currentPattern) : currentPattern[k][2] % cadence = 0)
                 => total = sum]_vars

\* C17 witness: at a cadence of 40 ms the first pattern of the library, whose
\* steps sum to 560 ms, has run for 640 ms when the scheduler has just
\* switched.
C17_Witness ==
  /\ isSpeaking /\ ticks = 1 /\ cadence = 40
  /\ patternStart = 640 /\ now = 640 /\ stepIndex = 0

\* C19: on a rig with a resolved morph channel no operation of the engine
\* (update, audioLoop, startMic, stopMic, dispose) writes the jaw bone's
\* rotation, and on a rig with a jaw bone and no morph channel none writes a
\* morph-target influence.
C19_PathsNeverCombined ==
  /\ Len(morphs) > 0 => ~wrote.ctlJaw
  /\ (Len(morphs) = 0 /\ jawBone) => wrote.ctlSlots = {}

\* C20: the micro-motion step of a tick never writes the rotation of the bone
\* the resolver selected as the jaw bone (the step assigns no morph-target
\* influence on any rig).
C20_MicroMotionLeavesJaw == ~wrote.microJaw

\* ----------------------------------------------------------------- resolver
\* Node graphs: the bones and the morph channels of one mesh, each in the
\* order a traversal discovers them.
BonePool == { <<"H", "e", "a", "d">>, <<"J", "a", "w">>, <<"H", "e", "a", "d", "_", "J", "a", "w">> }

ChannelPool ==
  { << <<"m", "o", "u", "t", "h", "O", "p", "e", "n">>, 0 >>,
    << <<"j", "a", "w", "O", "p", "e", "n">>, 1 >> }

\* the orders in which the members of a subset of pool can be discovered
OrdersOf(pool) ==
  {o \in UNION {[1 .. n -> pool] : n \in 0 .. Cardinality(pool)} :
     \A i, j \in 1 .. Len(o) : i # j => o[i] # o[j]}

Range(f) == {f[k] : k \in 1 .. Len(f)}

\* what construction resolves from one traversal: the jaw bone ("" : null)
\* and the set of morph slots
resolve(e, bones, dict) ==
  [jaw    |-> IF jawIndexIn(e, bones) = 0 THEN <<>> ELSE bones[jawIndexIn(e, bones)],
   morphs |-> Range(morphsIn(e, dict))]

\* Two constructions over the same node graph, discovered in two orders.
resolveTwice ==
  \E b1, b2 \in OrdersOf(BonePool), d1, d2 \in OrdersOf(ChannelPool) :
     /\ probe = <<>>
     /\ Range(b1) = Range(b2) /\ Range(d1) = Range(d2)
     /\ probe' = << <<b1, d1>>, <<b2, d2>> >>
     /\ result' = << resolve(engine, b1, d1), resolve(engine, b2, d2) >>
     /\ UNCHANGED <<rigVars, poseVars, micVars, lipVars, state, disposed,
                    tickError, ticks, lipIdle, patternStart, cadence, wrote,
                    compVars>>

SpecResolve == InitOf({"none"}) /\ [][resolveTwice]_vars

\* C21: two traversal orders of the same node graph resolve the same set of
\* morph channels and the same jaw bone.
C21_OrderIndependent ==
  result # <<>> => (result[1].morphs = result[2].morphs /\ result[1].jaw = result[2].jaw)

\* C22: no (mesh, channel-index) pair appears twice among the resolved morph
\* channels.
C22_ChannelsAreASet ==
  \A i, j \in 1 .. Len(morphs) : i # j => morphs[i] # morphs[j]

\* the slots whose influence this step changes
movedSlots == {sl \in Slots : influences'[sl] # influences[sl]}

\* C23: on a rig with morph channels a capturing tick moves one resolved
\* morph slot toward the amplitude and leaves every other slot unchanged.
C23_SingleOpennessChannel ==
  [][(mouthTick /\ Len(morphs) > 0) =>
       /\ Cardinality(movedSlots) <= 1
       /\ movedSlots \subseteq morphSlots]_vars

\* ---------------------------------------------------------------- computeRMS
\* Byte samples from the lowest to the highest, and the buffers of one to
\* three of them that an analyser can hand out.
Samples == {0, 1, 64, 127, 128, 129, 192, 255}

ByteBuffers == UNION {[1 .. n -> Samples] : n \in 1 .. 3}

\* One call of computeRMS on a buffer the analyser filled.
callComputeRMS ==
  \E buf \in ByteBuffers :
     /\ probe' = buf
     /\ result' = computeRMS(buf)
     /\ UNCHANGED <<rigVars, poseVars, micVars, lipVars, state, disposed,
                    tickError, ticks, lipIdle, patternStart, cadence, wrote,
                    compVars>>

SpecRMS == InitOf({"none"}) /\ [][callComputeRMS]_vars

\* C24: computeRMS returns 0 for a buffer of samples all equal to 128, a
\* value in [0,1] for every buffer, and a value above 0.99 for a buffer that
\* alternates between 0 and 255.
C24_RmsExtremes ==
  probe # <<>> =>
    /\ result \in 0 .. Scale
    /\ (\A k \in 1 .. Len(probe) : probe[k] = 128) => result = 0
    /\ (/\ Len(probe) % 2 = 0
        /\ \A k \in 1 .. Len(probe) : probe[k] = (IF k % 2 = 1 THEN 0 ELSE 255))
         => result > 9900

\* C24 witness: computeRMS was applied to the buffer alternating between 0
\* and 255 and returned a value between 0.99 and 1.
C24_Witness ==
  /\ probe = <<0, 255>>
  /\ result > 9900 /\ result < Scale

\* C25: when setSpeaking(true) is called while the scheduler is not speaking,
\* the step index is 0, the active pattern is a pattern of the library and
\* the step start time is the clock reading of the call; the tick that
\* follows sets a target on the viseme of step 0 of that pattern and on no
\* other viseme but aa.
C25_EnteringSpeaking ==
  [][/\ (~isSpeaking /\ isSpeaking') =>
          /\ stepIndex' = 0
          /\ \E k \in 1 .. Len(SPEECH_PATTERNS) : currentPattern' = SPEECH_PATTERNS[k]
          /\ stepStartTime' = now'
     /\ (isSpeaking /\ patternStart = now /\ now' > now) =>
          /\ targetWeights'[currentPattern[1][1]] > 0
          /\ \A i \in Visemes \ {currentPattern[1][1], VISEME_AA} :
                targetWeights'[i] = 0]_vars

\* C25 witness: the scheduler was started, ran past its first step, was
\* stopped and has just been started again.
C25_Witness ==
  /\ isSpeaking /\ ticks = 3
  /\ now > 200 /\ stepStartTime = now /\ patternStart = now
  /\ stepIndex = 0

\* C26: setSpeaking(false) sets every target weight to 0 and leaves the
\* current weights as they are; while the scheduler does not speak every
\* target stays 0, and in every step each current weight does not grow and
\* falls by at most one smoothing step, or to 0 when that step takes it below
\* epsilon.
C26_LeavingSpeaking ==
  [][/\ (isSpeaking /\ ~isSpeaking') => currentWeights' = currentWeights
     /\ ~isSpeaking' => \A i \in Visemes : targetWeights'[i] = 0
     /\ (~isSpeaking /\ ~isSpeaking') =>
          \A i \in Visemes :
             LET cur  == currentWeights[i]
                 step == Mul(cur, smoothing) + 1
             IN  /\ currentWeights'[i] <= cur
                 /\ \/ cur - currentWeights'[i] <= step
                    \/ currentWeights'[i] = 0 /\ cur - step < Eps]_vars

\* C26 witness: two ticks after the scheduler stopped speaking a current
\* weight is still above 0.1 while every target is 0.
C26_Witness ==
  /\ lipSync /\ ~isSpeaking /\ lipIdle = 2
  /\ \E i \in Visemes : currentWeights[i] > 1000
  /\ \A i \in Visemes : targetWeights[i] = 0

\* C27: after a tick while speaking the target vector is 0 everywhere except
\* at the viseme of the step that was active during the tick, which holds the
\* step's intensity (at most 0.95), and, when that viseme is neither silence
\* nor aa, at aa, which holds 0.2 x that intensity.
C27_TargetShape ==
  [][(isSpeaking /\ now' > now) =>
       LET v == currentPattern[stepIndex + 1][1]
       IN  /\ targetWeights'[v] \in 0 .. 9500
           /\ \A i \in Visemes \ {v, VISEME_AA} : targetWeights'[i] = 0
           /\ v \notin {VISEME_SIL, VISEME_AA}
                 => targetWeights'[VISEME_AA] = Mul(targetWeights'[v], 2000)
           /\ v = VISEME_SIL => targetWeights'[VISEME_AA] = 0]_vars

\* C27 witness: during the second step of the first pattern (viseme PP) the
\* target holds an intensity above 0.5 at PP and a fifth of it at aa.
C27_Witness ==
  /\ isSpeaking /\ patternIndex = 0 /\ stepIndex = 1
  /\ targetWeights[1] > 5000
  /\ targetWeights[VISEME_AA] = Mul(targetWeights[1], 2000)

\* ------------------------------------------------ the host's sync effects
\* Avatar3D keeps one effect per flag.  After a render React runs, in the
\* order they are declared, the effects whose flag changed; each forwards its
\* own flag to the engine and knows nothing of the other two.

FlagSets == [listening : BOOLEAN, speaking : BOOLEAN, thinking : BOOLEAN]

\* The calls the effects of one render make on interactionsRef.current.
effectCalls(old, new) ==
  (IF new.listening # old.listening
     THEN << <<"setState", IF new.listening THEN "listening" ELSE "idle">>,
             <<IF new.listening THEN "startMic" ELSE "stopMic", "">> >>
     ELSE <<>>)
  \o (IF new.speaking # old.speaking
        THEN << <<"setState", IF new.speaking THEN "speaking" ELSE "idle">> >>
        ELSE <<>>)
  \o (IF new.thinking # old.thinking
        THEN << <<"setState", IF new.thinking THEN "thinking" ELSE "idle">> >>
        ELSE <<>>)

\* The host renders with new flags; the effects of the changed flags are due.
render(new) ==
  /\ todo = <<>>
  /\ new # flags
  /\ flags' = new
  /\ todo' = effectCalls(flags, new)
  /\ UNCHANGED <<rigVars, poseVars, micVars, lipVars, state, disposed, tickError>>

\* The next call of the running effects.
runEffect ==
  /\ todo # <<>>
  /\ todo' = Tail(todo)
  /\ UNCHANGED flags
  /\ CASE Head(todo)[1] = "setState" -> setState(Head(todo)[2])
       [] Head(todo)[1] = "startMic" -> startMic
       [] Head(todo)[1] = "stopMic"  -> stopMic

syncGhost == <<ticks, lipIdle, patternStart, cadence, probeVars, wrote, viewVars,
               gestureVars>>

\* The attached interactions under a host that changes its flags in every
\* order, with the permission answers arriving between renders.
NextSync ==
  \/ (\E new \in FlagSets : render(new))
       /\ ticks < SyncRenders /\ ticks' = ticks + 1
       /\ UNCHANGED <<lipIdle, patternStart, cadence, probeVars, wrote, viewVars,
                      gestureVars>>
  \/ runEffect /\ UNCHANGED syncGhost
  \/ (\E c \in Calls, buf \in Buffers : todo = <<>> /\ startMicGranted(c, "none", buf))
       /\ UNCHANGED <<syncGhost, hostVars>>
  \/ (\E c \in Calls : todo = <<>> /\ startMicDenied(c))
       /\ UNCHANGED <<syncGhost, hostVars>>

InitSync == InitOf({"generic"}) /\ engine = "interactions"

SpecSync == InitSync /\ [][NextSync]_vars

\* The AnimationState the flags call for, when at most one of them is true.
flagState ==
  CASE flags.listening /\ ~flags.speaking /\ ~flags.thinking -> "listening"
    [] ~flags.listening /\ flags.speaking /\ ~flags.thinking -> "speaking"
    [] ~flags.listening /\ ~flags.speaking /\ flags.thinking -> "thinking"
    [] OTHER -> "idle"

\* C28: once the sync effects of a render have run, the engine state is
\* "idle" when all three flags are false and is the state of the flag when
\* exactly one flag is true.
C28_StateFollowsFlags ==
  (todo = <<>> /\ Cardinality({f \in {"listening", "speaking", "thinking"} : flags[f]}) <= 1)
     => state = flagState

\* ------------------------------------------------- the viewer's lifecycle
\* The init effect of Avatar3D, one run per mount or glbUrl change.  Run k
\* loads viewer k, attaches interactions k to it, and its cleanup disposes
\* whatever the refs hold.  The first version of the component stops after
\* storing the viewer.

\* the then-handler finds the flag of its closure set
isDisposed_ignored(k) == FALSE

isDisposed(k) == closed[k]

\* The effect body up to the pending createAvatarViewer promise.
startRun ==
  /\ effectRuns < MaxRuns
  /\ effectRuns' = effectRuns + 1
  /\ phase' = [phase EXCEPT ![effectRuns + 1] = "loading"]

\* The cleanup the latest run returned.
cleanup ==
  /\ closed' = [closed EXCEPT ![effectRuns] = TRUE]
  /\ inters' = IF interactionsRef # 0
                 THEN [inters EXCEPT ![interactionsRef] = "disposed"]
                 ELSE inters
  /\ interactionsRef' = 0
  /\ viewers' = IF viewerRef # 0
                  THEN [viewers EXCEPT ![viewerRef] = "disposed"]
                  ELSE viewers
  /\ viewerRef' = 0

mount(v) ==
  /\ ~mounted /\ effectRuns = 0
  /\ mounted' = TRUE
  /\ withAttach' = v
  /\ startRun
  /\ UNCHANGED <<closed, viewers, inters, viewerRef, interactionsRef>>

\* glbUrl changes: the cleanup of the latest run, then the effect again.
changeGlbUrl ==
  /\ mounted
  /\ cleanup
  /\ startRun
  /\ UNCHANGED <<mounted, withAttach>>

unmount ==
  /\ mounted
  /\ mounted' = FALSE
  /\ cleanup
  /\ UNCHANGED <<withAttach, effectRuns, phase>>

\* createAvatarViewer of run k resolves; the then-handler runs up to its
\* await, where attachAvatarInteractions has built the interactions.
loaded(k) ==
  /\ phase[k] = "loading"
  /\ IF isDisposed(k)
       THEN /\ viewers' = [viewers EXCEPT ![k] = "disposed"]
            /\ phase' = [phase EXCEPT ![k] = "done"]
            /\ UNCHANGED <<viewerRef, inters>>
       ELSE /\ viewers' = [viewers EXCEPT ![k] = "live"]
            /\ viewerRef' = k
            /\ IF withAttach
                 THEN /\ inters' = [inters EXCEPT ![k] = "live"]
                      /\ phase' = [phase EXCEPT ![k] = "attaching"]
                 ELSE /\ phase' = [phase EXCEPT ![k] = "done"]
                      /\ UNCHANGED inters
  /\ UNCHANGED <<withAttach, mounted, effectRuns, closed, interactionsRef>>

\* The rest of the then-handler, after the await.
attached(k) ==
  /\ phase[k] = "attaching"
  /\ phase' = [phase EXCEPT ![k] = "done"]
  /\ IF isDisposed(k)
       THEN /\ inters' = [inters EXCEPT ![k] = "disposed"]
            /\ UNCHANGED interactionsRef
       ELSE /\ interactionsRef' = k
            /\ UNCHANGED inters
  /\ UNCHANGED <<withAttach, mounted, effectRuns, closed, viewers, viewerRef>>

viewGhost == <<rigVars, poseVars, micVars, lipVars, state, disposed, tickError,
               ticks, lipIdle, patternStart, cadence, probeVars, wrote, hostVars,
               gestureVars>>

\* Every interleaving of mount, glbUrl changes, unmount and the settling of
\* the promises of every run.
NextView ==
  \/ (\E v \in BOOLEAN : mount(v)) /\ UNCHANGED viewGhost
  \/ changeGlbUrl /\ UNCHANGED viewGhost
  \/ unmount /\ UNCHANGED viewGhost
  \/ (\E k \in Runs : loaded(k)) /\ UNCHANGED viewGhost
  \/ (\E k \in Runs : attached(k)) /\ UNCHANGED viewGhost

InitView == InitOf({"generic"}) /\ engine = "interactions"

SpecView == InitView /\ [][NextView]_vars

settled == \A k \in Runs : phase[k] \in {"none", "done"}

\* C29: once the component is unmounted and every promise has settled, no
\* viewer and no interactions object that was created is still live; and at
\* every moment each ref holds nothing or the live object of the latest run.
C29_NoLeakNoStaleViewer ==
  /\ (effectRuns > 0 /\ ~mounted /\ settled) =>
        \A k \in Runs : viewers[k] # "live" /\ inters[k] # "live"
  /\ viewerRef # 0 => viewerRef = effectRuns /\ viewers[viewerRef] = "live"
  /\ interactionsRef # 0 => interactionsRef = effectRuns /\ inters[interactionsRef] = "live"

\* C29 witness: the component was unmounted while its second run was still
\* loading; the first run's viewer and interactions were disposed by the
\* cleanup, the second run's viewer by its own then-handler.
C29_Witness ==
  /\ ~mounted /\ effectRuns = 2 /\ settled /\ withAttach
  /\ viewers[1] = "disposed" /\ inters[1] = "disposed"
  /\ viewers[2] = "disposed" /\ inters[2] = "none"

\* ------------------------------------------------------------- gestures
\* opts.gestureCooldown, in ms
gestureCooldown == 1200

\* the cooldown test never rejects
coolingDown_never(t) == FALSE

\* now - lastGestureTime < opts.gestureCooldown
coolingDown(t) == t - lastGestureTime < gestureCooldown

\* triggerGesture(name), called d ms after the clock was last read.
triggerGesture(name, d) ==
  /\ now' = now + d
  /\ probe' = name
  /\ IF name \notin Clips \/ coolingDown(now + d)
       THEN /\ result' = FALSE
            /\ UNCHANGED gestureVars
       ELSE /\ result' = TRUE
            /\ lastGestureTime' = now + d
            /\ clipStarts' = [clipStarts EXCEPT ![name] = @ + 1]
  /\ UNCHANGED <<rigVars, poseVars, micVars, state, disposed, tickError,
                 isSpeaking, patternIndex, stepIndex, stepStartTime,
                 currentPattern, targetWeights, currentWeights>>

GestureDeltas == {0, 600, 1200}

\* A host that asks for gestures, known and unknown, at every pace.
NextGesture ==
  \E name \in GestureNames, d \in GestureDeltas :
     /\ ticks < GestureCalls /\ now + d <= GestureTime
     /\ triggerGesture(name, d)
     /\ ticks' = ticks + 1
     /\ UNCHANGED <<lipIdle, patternStart, cadence, wrote, hostVars, viewVars>>

InitGesture == InitOf({"rpm"}) /\ engine = "controller" /\ ~lipSync

SpecGesture == InitGesture /\ [][NextGesture]_vars

\* C30: a call of triggerGesture returns true only for a clip of the avatar
\* and only when at least gestureCooldown has passed since the last gesture
\* that started; it then starts that clip once and restarts the cooldown.  A
\* call that returns false starts no clip and leaves the cooldown alone.
C30_GestureCooldown ==
  [][ticks' # ticks =>
       /\ result' \in BOOLEAN
       /\ result' = TRUE =>
            /\ probe' \in Clips
            /\ now' - lastGestureTime >= gestureCooldown
            /\ lastGestureTime' = now'
            /\ clipStarts' = [clipStarts EXCEPT ![probe'] = @ + 1]
       /\ result' = FALSE =>
            /\ lastGestureTime' = lastGestureTime
            /\ clipStarts' = clipStarts]_vars

\* C30 witness: of three calls one was rejected and two started a clip, the
\* second of them at least gestureCooldown after the first.
C30_Witness ==
  /\ ticks = 3 /\ result = TRUE /\ now = 1800
  /\ lastGestureTime = now
  /\ clipStarts["wave"] = 1 /\ clipStarts["nod"] = 1

====
